---------------------------- MODULE Spec2Model ----------------------------
(***************************************************************************)
(* NyxBox: the machine run loop (machine.rs, main.rs), the VDP command      *)
(* queue interpreter (vdp.rs), the UART (uart.rs) and the clock (clock.rs). *)
(*                                                                         *)
(* Each component has its own specification over the shared variables:     *)
(*   SpecMachine  worker thread / frame loop / stop()                       *)
(*   SpecVDP      CMDPORT, STATUS, tick and the interpreter                 *)
(*   SpecUART     push_input, read, write                                   *)
(*   SpecClockRtc STATUS / DT with the host's seconds clock                 *)
(*   SpecClockCtr STATUS / CTRnLO / CTRnHI with the host's tick counter     *)
(* Variables of the other components keep their constructed values.        *)
(***************************************************************************)
EXTENDS Integers, Sequences, FiniteSets, TLC

VARIABLES
    \* ---- machine.rs / main.rs
    wpc,            \* worker thread position: "emu" | "wait" | "check" | "exited"
    hpc,            \* main thread position in the frame loop / stop()
    cpu_signal,     \* AutoResetEvent state: TRUE = set
    stop_signal,    \* AtomicBool
    stop_seen,      \* the worker's last release happened after stop()'s set()
    wpc_at_stop,    \* where the worker was when stop() was called ("none" before)
    n_release,      \* times cpu_signal.wait() has returned in the worker
    pending,        \* cpu_signal.set() calls made since wait() last returned
    emu_raises,     \* raise_signal() calls made while the worker ran guest code,
                    \* since it last started guest code
    lock,           \* who holds each peripheral's RwLock: "none" | "worker" | "host"
    w_op,           \* the peripheral the worker's MMIO hook is operating on, or "none"
    h_op,           \* the peripheral the frame driver is operating on, or "none"
    accum,          \* whole timesteps left in the accumulator
    n_tick,         \* vdp.tick() calls made by the frame loop
    n_raise,        \* raise_signal() calls made by the frame loop
    \* ---- vdp.rs
    vram,           \* vram_transfer as u32 words, index 0..VramWords-1
    internal_reg,
    reset_state,
    cmd_fifo,
    last_cmd_tok,
    cable_type,
    display_enable,
    display_interlace,
    err_mode,
    regmem,         \* the backend's copy of the register file
    regmem_dirty,
    dispatches,     \* register writes, register-file uploads and compute
                    \* dispatches, in the order the interpreter made them
    panicked,       \* an index out of the mapped VRAM slice aborted the host
    submitted,      \* history: every address written to CMDPORT, in order
    execLog,        \* history: every address handed to exec_cmd_queue, in order
    popped,         \* history: every token a CMDPORT read took from last_cmd_tok
    \* ---- uart.rs
    rx,
    tx,             \* bytes written to the output sink, in order
    flushed,        \* how many bytes of tx have been flushed
    uart_in,        \* history: bytes pushed since the last reset
    uart_got,       \* history: bytes an RX read took from the queue since the last reset
    \* ---- clock.rs
    rtc_en, ctr0_en, ctr1_en, ctr0_intr, ctr1_intr,
    ctr0_intr_p, ctr1_intr_p,
    ctr0, ctr1,
    dt_adjust,
    ctr0_base, ctr1_base,
    timestamp,
    sdl_ctr,        \* get_sdl_ctr(): the host's tick counter now
    secs,           \* Instant::now().duration_since(time_start).as_secs()
    en_ticks0,      \* history: host ticks that passed while ctr0_en, since its reset
    en_ticks1,      \* history: the same for ctr1
    dt_set,         \* history: the DT write made while the RTC was disabled that
                    \* still stands (its value and the second it was made at)
    rst,            \* history: the last STATUS write if it had a reset bit (its
                    \* value and the host tick it was made at)
    \* ---- the last peripheral operation and what it returned
    last

machineHist == <<n_release, pending, emu_raises>>
busVars     == <<lock, w_op, h_op>>
machineVars == <<wpc, hpc, cpu_signal, stop_signal, stop_seen, wpc_at_stop, accum,
                 n_tick, n_raise, machineHist, busVars>>
vdpDevVars  == <<internal_reg, reset_state, cmd_fifo, last_cmd_tok, cable_type,
                 display_enable, display_interlace, err_mode, regmem, regmem_dirty,
                 dispatches, panicked>>
vdpHistVars == <<submitted, execLog, popped>>
vdpVars     == <<vram, vdpDevVars, vdpHistVars>>
uartVars    == <<rx, tx, flushed, uart_in, uart_got>>
rtcVars     == <<rtc_en, dt_adjust, timestamp, secs>>
ctrVars     == <<ctr0_en, ctr1_en, ctr0, ctr1, ctr0_base, ctr1_base, sdl_ctr,
                 en_ticks0, en_ticks1>>
clockRest   == <<ctr0_intr, ctr1_intr, ctr0_intr_p, ctr1_intr_p>>
clockHist   == <<dt_set, rst>>
clockVars   == <<rtcVars, ctrVars, clockRest, clockHist>>

\* No DT write stands; the last STATUS write had no reset bit.
NoDtSet == [ok |-> FALSE, v |-> 0, at |-> 0]
NoRst == [val |-> 0, at |-> 0]
vars        == <<machineVars, vdpVars, uartVars, clockVars, last>>

\* The record every peripheral operation leaves in `last`: the operation, its
\* register slot, the value written, the value returned, and the length the
\* queue it reads from had before the call.
Op(name, slot, val, ret, pre) ==
    [op |-> name, slot |-> slot, val |-> val, ret |-> ret, pre |-> pre]

NoOp == Op("none", 0, 0, 0, 0)


-----------------------------------------------------------------------------
(***************************************************************************)
(* Bounds of the model.                                                    *)
(***************************************************************************)
\* Words of VRAM the interpreter can index: stands for the mapped slice's length.
VramWords == 3
\* CMDPORT writes in one behaviour.
MaxSubmit == 2

\* v & b # 0 for a one-bit mask b.
Bit(v, b) == (v \div b) % 2 = 1

-----------------------------------------------------------------------------
(***************************************************************************)
(* vdp.rs                                                                  *)
(***************************************************************************)
REG_STATUS == 0
REG_CMDPORT == 1
REG_DISPLAYMODE == 2

STATUSBIT_RESET == 1
STATUSBIT_CMDFIFOEMPTY == 2
STATUSBIT_ERR_ADDR == 8
STATUSBIT_ERR_CMD == 16

DISPLAYBIT_CABLE_VGA == 0
DISPLAYBIT_CABLE_COMPOSITE == 1
DISPLAYBIT_CABLE_SVIDEO == 2
DISPLAYBIT_CABLE_COMPONENT == 3
DISPLAYBIT_ENABLE == 4
DISPLAYBIT_INTERLACE == 8

INTERNALREG_COUNT == 256

\* Opcodes of exec_cmd_queue's match.
OP_WRITE_REG == 0
OP_VERTEX_LIST == 1
OP_TRI_LIST == 2
OP_TRI_STRIP == 3
OP_LINE_LIST == 4
OP_LINE_STRIP == 5
OP_CLEAR_COLOR == 6
OP_CLEAR_DEPTH == 7
OP_END_OF_QUEUE == 255

\* Header words: opcode in bits 0..7, the rest in bits 8..31.
Hdr(op, rest) == rest * 256 + op

\* The words a VRAM cell can hold in the model: a write to register 5, two
\* end-of-queue words with tokens 42 and 1, and the undefined opcode 0x7F.
\* As an operand each is just a value.
Words == { Hdr(OP_WRITE_REG, 5), Hdr(OP_END_OF_QUEUE, 42),
           Hdr(OP_END_OF_QUEUE, 1), 127 }

\* Addresses the guest submits: every word of VRAM.
Addrs == 0..(VramWords - 1)

Regs == 0..(INTERNALREG_COUNT - 1)

\* The VDP fields exec_cmd_queue works on, as one record.
VdpState == [reg |-> internal_reg, tok |-> last_cmd_tok, err |-> err_mode,
             dirty |-> regmem_dirty, mirror |-> regmem, disp |-> dispatches,
             panic |-> panicked, log |-> execLog]

\* mem.mem()[addr]: inside the slice or an index-out-of-bounds panic.
InVram(addr) == addr \in DOMAIN vram

\* load_word returns the word; the caller's addr is advanced by one.
load_word(addr) == vram[addr]

\* An entry of the history `dispatches`: a register write (src the register
\* index, dst the value), an upload of the register file, or a dispatch of
\* count groups on a pipeline; regmem is the backend's register buffer then.
Event(pipe, count, src, dst, mirror) ==
    [pipe |-> pipe, count |-> count, src |-> src, dst |-> dst, regmem |-> mirror]

\* flush_regmem that uploads whether or not the register file is dirty.
FlushRegmemAlways(s) ==
    [s EXCEPT !.mirror = s.reg, !.dirty = FALSE,
              !.disp = Append(s.disp, Event("upload", 0, 0, 0, s.reg))]

\* flush_regmem: upload the register file when it is dirty.
flush_regmem(s) ==
    IF s.dirty
    THEN [s EXCEPT !.mirror = s.reg, !.dirty = FALSE,
                   !.disp = Append(s.disp, Event("upload", 0, 0, 0, s.reg))]
    ELSE s

\* 0 => write internal register
WriteInternalRegister(s, hdr, register_val) ==
    [s EXCEPT !.reg[(hdr \div 256) % 256] = register_val, !.dirty = TRUE,
              !.disp = Append(s.disp, Event("write_reg", 0, (hdr \div 256) % 256,
                                            register_val, s.mirror))]

\* 1 => process vertex list
ProcessVertexList(s, hdr, src_ptr, dst_ptr) ==
    LET f == flush_regmem(s)
    IN  [f EXCEPT !.disp = Append(f.disp, Event("vu", hdr \div 256, src_ptr, dst_ptr,
                                                f.mirror))]

\* 2 => draw triangle list
DrawTriangleList(s, hdr, src_ptr) ==
    LET f == flush_regmem(s)
    IN  [f EXCEPT !.disp = Append(f.disp, Event("draw_tri_list", hdr \div 256,
                                                src_ptr, 0, f.mirror))]

EndOfQueueRawHeader(s, hdr) ==
    [s EXCEPT !.tok = Append(s.tok, hdr)]

\* 0xFF => end of queue: push the token, return
EndOfQueue(s, hdr) ==
    [s EXCEPT !.tok = Append(s.tok, hdr \div 256)]

UndefinedOpcodeWithToken(s, hdr) ==
    [s EXCEPT !.err = "CmdError", !.tok = Append(s.tok, hdr \div 256)]

\* _ => err_mode = CmdError, return
UndefinedOpcode(s, hdr) ==
    [s EXCEPT !.err = "CmdError"]

\* Operand words each opcode loads after its header.
OperandCount(op) ==
    CASE op = OP_WRITE_REG -> 1
      [] op = OP_VERTEX_LIST -> 2
      [] op \in {OP_TRI_LIST, OP_TRI_STRIP, OP_LINE_LIST, OP_LINE_STRIP} -> 1
      [] op \in {OP_CLEAR_COLOR, OP_CLEAR_DEPTH} -> 1
      [] OTHER -> 0

RECURSIVE ExecLoop(_, _)

\* The end-of-queue arm without its return: the loop goes on with the next word.
EndOfQueueFallsThrough(s, addr) == ExecLoop(s, addr)

\* The end-of-queue arm's `return;`: no word from addr on is interpreted.
EndOfQueueReturn(s, addr) == s

\* The reserved arm without its load_word: the operand is the next header.
AfterReservedHeader(addr) == addr + 1

\* 3, 4, 5 => the count is taken from the header and one operand word is
\* loaded; addr is left after the operand.
AfterReservedTopology(addr) == addr + 2

\* exec_cmd_queue's loop from word addr on. Every load_word indexes the slice, so a
\* header or operand outside it panics before the command has any effect.
ExecLoop(s, addr) ==
    IF ~InVram(addr) THEN [s EXCEPT !.panic = TRUE]
    ELSE
      LET hdr == load_word(addr)
          op  == hdr % 256
          n   == OperandCount(op)
      IN  IF ~InVram(addr + n) THEN [s EXCEPT !.panic = TRUE]
          ELSE CASE op = OP_WRITE_REG ->
                      ExecLoop(WriteInternalRegister(s, hdr, load_word(addr + 1)), addr + 2)
                 [] op = OP_VERTEX_LIST ->
                      ExecLoop(ProcessVertexList(s, hdr, load_word(addr + 1),
                                                 load_word(addr + 2)), addr + 3)
                 [] op = OP_TRI_LIST ->
                      ExecLoop(DrawTriangleList(s, hdr, load_word(addr + 1)), addr + 2)
                 [] op \in {OP_TRI_STRIP, OP_LINE_LIST, OP_LINE_STRIP} ->
                      ExecLoop(s, AfterReservedTopology(addr))
                 [] op \in {OP_CLEAR_COLOR, OP_CLEAR_DEPTH} ->
                      ExecLoop(s, addr + 2)
                 [] op = OP_END_OF_QUEUE ->
                      EndOfQueueReturn(EndOfQueue(s, hdr), addr + 1)
                 [] OTHER -> UndefinedOpcode(s, hdr)

\* exec_cmd_queue that clears err_mode when it starts a buffer.
ExecCmdQueueClearsError(s, addr) ==
    ExecLoop([s EXCEPT !.log = Append(s.log, addr), !.err = "None"], addr)

\* exec_cmd_queue(addr); the history records the call.
exec_cmd_queue(s, addr) == ExecLoop([s EXCEPT !.log = Append(s.log, addr)], addr)

Reverse(q) == [i \in 1..Len(q) |-> q[Len(q) + 1 - i]]

DrainedNewestFirst(fifo) == Reverse(fifo)

\* cmd_fifo.drain(0..).collect(): the addresses the tick will interpret, in order.
Drained(fifo) == fifo

FifoKept(fifo) == fifo

\* What drain(0..) leaves in cmd_fifo.
FifoAfterDrain(fifo) == <<>>

\* for cmd_addr in cmds { exec_cmd_queue(cmd_addr) }: a panic unwinds out of the loop.
RECURSIVE ExecAll(_, _)
ExecAll(s, cmds) ==
    IF cmds = <<>> \/ s.panic THEN s
    ELSE ExecAll(exec_cmd_queue(s, Head(cmds)), Tail(cmds))

\* VDP::tick's effect on the device.
TickEffect ==
    LET s == ExecAll(VdpState, Drained(cmd_fifo))
    IN  /\ cmd_fifo' = FifoAfterDrain(cmd_fifo)
        /\ internal_reg' = s.reg
        /\ last_cmd_tok' = s.tok
        /\ err_mode' = s.err
        /\ regmem_dirty' = s.dirty
        /\ regmem' = s.mirror
        /\ dispatches' = s.disp
        /\ panicked' = s.panic
        /\ execLog' = s.log
        /\ UNCHANGED <<vram, reset_state, cable_type, display_enable,
                       display_interlace, submitted, popped>>

\* get_reg with the cable-type term left out of DISPLAYMODE.
GetRegCableDropped(reg) ==
    IF reg = REG_STATUS THEN
        (IF reset_state THEN STATUSBIT_RESET ELSE 0)
      + (IF Len(cmd_fifo) = 0 THEN STATUSBIT_CMDFIFOEMPTY ELSE 0)
      + (CASE err_mode = "None" -> 0
           [] err_mode = "AddressError" -> STATUSBIT_ERR_ADDR
           [] err_mode = "CmdError" -> STATUSBIT_ERR_CMD)
    ELSE IF reg = REG_CMDPORT THEN
        (IF last_cmd_tok # <<>> THEN Head(last_cmd_tok) ELSE 0)
    ELSE IF reg = REG_DISPLAYMODE THEN
        (IF display_enable THEN DISPLAYBIT_ENABLE ELSE 0)
      + (IF display_interlace THEN DISPLAYBIT_INTERLACE ELSE 0)
    ELSE 0

\* VDP::get_reg's return value.
get_reg(reg) ==
    IF reg = REG_STATUS THEN
        (IF reset_state THEN STATUSBIT_RESET ELSE 0)
      + (IF Len(cmd_fifo) = 0 THEN STATUSBIT_CMDFIFOEMPTY ELSE 0)
      + (CASE err_mode = "None" -> 0
           [] err_mode = "AddressError" -> STATUSBIT_ERR_ADDR
           [] err_mode = "CmdError" -> STATUSBIT_ERR_CMD)
    ELSE IF reg = REG_CMDPORT THEN
        (IF last_cmd_tok # <<>> THEN Head(last_cmd_tok) ELSE 0)
    ELSE IF reg = REG_DISPLAYMODE THEN
        (CASE cable_type = "VGA" -> DISPLAYBIT_CABLE_VGA
           [] cable_type = "Composite" -> DISPLAYBIT_CABLE_COMPOSITE
           [] cable_type = "SVideo" -> DISPLAYBIT_CABLE_SVIDEO
           [] cable_type = "Component" -> DISPLAYBIT_CABLE_COMPONENT)
      + (IF display_enable THEN DISPLAYBIT_ENABLE ELSE 0)
      + (IF display_interlace THEN DISPLAYBIT_INTERLACE ELSE 0)
    ELSE 0

\* last_cmd_tok.pop_front(): what is left of the queue.
PopFront(q) == IF q # <<>> THEN Tail(q) ELSE q

\* VDP::get_reg(reg)
GetReg(reg) ==
    /\ ~panicked
    /\ last' = Op("get_reg", reg, 0, get_reg(reg), Len(last_cmd_tok))
    /\ IF reg = REG_CMDPORT
       THEN /\ last_cmd_tok' = PopFront(last_cmd_tok)
            /\ popped' = IF last_cmd_tok # <<>>
                         THEN Append(popped, get_reg(reg)) ELSE popped
       ELSE UNCHANGED <<last_cmd_tok, popped>>
    /\ UNCHANGED <<vram, internal_reg, reset_state, cmd_fifo, cable_type,
                   display_enable, display_interlace, err_mode, regmem, regmem_dirty,
                   dispatches, panicked, submitted, execLog>>
    /\ UNCHANGED <<machineVars, uartVars, clockVars>>

\* set_reg with the STATUS test inverted: reset is armed by a set reset bit.
SetRegArmsOnSetBit(reg, value) ==
    /\ ~panicked
    /\ reg = REG_CMDPORT => Len(submitted) < MaxSubmit
    /\ last' = Op("set_reg", reg, value, 0, Len(cmd_fifo))
    /\ reset_state' = IF reg = REG_STATUS /\ Bit(value, STATUSBIT_RESET)
                      THEN TRUE ELSE reset_state
    /\ cmd_fifo' = IF reg = REG_CMDPORT THEN Append(cmd_fifo, value) ELSE cmd_fifo
    /\ submitted' = IF reg = REG_CMDPORT THEN Append(submitted, value) ELSE submitted
    /\ display_enable' = IF reg = REG_DISPLAYMODE THEN Bit(value, DISPLAYBIT_ENABLE)
                         ELSE display_enable
    /\ display_interlace' = IF reg = REG_DISPLAYMODE THEN Bit(value, DISPLAYBIT_INTERLACE)
                            ELSE display_interlace
    /\ UNCHANGED <<vram, internal_reg, last_cmd_tok, cable_type, err_mode, regmem,
                   regmem_dirty, dispatches, panicked, execLog, popped>>
    /\ UNCHANGED <<machineVars, uartVars, clockVars>>

\* VDP::set_reg(reg, value)
SetReg(reg, value) ==
    /\ ~panicked
    /\ reg = REG_CMDPORT => Len(submitted) < MaxSubmit
    /\ last' = Op("set_reg", reg, value, 0, Len(cmd_fifo))
    /\ reset_state' = IF reg = REG_STATUS /\ ~Bit(value, STATUSBIT_RESET)
                      THEN TRUE ELSE reset_state
    /\ cmd_fifo' = IF reg = REG_CMDPORT THEN Append(cmd_fifo, value) ELSE cmd_fifo
    /\ submitted' = IF reg = REG_CMDPORT THEN Append(submitted, value) ELSE submitted
    /\ display_enable' = IF reg = REG_DISPLAYMODE THEN Bit(value, DISPLAYBIT_ENABLE)
                         ELSE display_enable
    /\ display_interlace' = IF reg = REG_DISPLAYMODE THEN Bit(value, DISPLAYBIT_INTERLACE)
                            ELSE display_interlace
    /\ UNCHANGED <<vram, internal_reg, last_cmd_tok, cable_type, err_mode, regmem,
                   regmem_dirty, dispatches, panicked, execLog, popped>>
    /\ UNCHANGED <<machineVars, uartVars, clockVars>>

\* VDP::tick()
Tick ==
    /\ ~panicked
    /\ TickEffect
    /\ last' = Op("tick", 0, 0, 0, Len(cmd_fifo))
    /\ UNCHANGED <<machineVars, uartVars, clockVars>>

-----------------------------------------------------------------------------
(***************************************************************************)
(* Constructed states.                                                     *)
(***************************************************************************)
\* Machine::run() has returned: the worker is spawned, the event is unset.
InitMachineVars ==
    /\ wpc = "emu"
    /\ hpc = "poll"
    /\ cpu_signal = FALSE
    /\ stop_signal = FALSE
    /\ stop_seen = FALSE
    /\ wpc_at_stop = "none"
    /\ n_release = 0
    /\ pending = 0
    /\ emu_raises = 0
    /\ lock = [d \in {"uart", "clock"} |-> "none"]
    /\ w_op = "none"
    /\ h_op = "none"
    /\ accum = 0
    /\ n_tick = 0
    /\ n_raise = 0

\* VDP::new(), then one set_reg(REG_CMDPORT, a) for each a of `queue`.
VdpNew(queue) ==
    /\ internal_reg = [r \in Regs |-> 0]
    /\ reset_state = FALSE
    /\ cmd_fifo = queue
    /\ last_cmd_tok = <<>>
    /\ cable_type = "VGA"
    /\ display_enable = FALSE
    /\ display_interlace = FALSE
    /\ err_mode = "None"
    /\ regmem = [r \in Regs |-> 0]
    /\ regmem_dirty = TRUE
    /\ dispatches = <<>>
    /\ panicked = FALSE
    /\ submitted = queue
    /\ execLog = <<>>
    /\ popped = <<>>

\* VDP::new()
InitVdpDev == VdpNew(<<>>)

\* The command buffer main() uploads, cut to the model's VRAM: one register
\* write (FBDIM) and an end of queue.
MainImage ==
    [i \in 0..(VramWords - 1) |->
        IF i = 0 THEN Hdr(OP_WRITE_REG, 0)
        ELSE IF i = 1 THEN 127
        ELSE Hdr(OP_END_OF_QUEUE, 42)]

\* UART::new()
InitUartVars ==
    /\ rx = <<>>
    /\ tx = <<>>
    /\ flushed = 0
    /\ uart_in = <<>>
    /\ uart_got = <<>>

\* The host tick counter when Clock::new() runs.
StartCtrs == {1}

\* Clock::new()
InitClockVars ==
    /\ rtc_en = FALSE
    /\ ctr0_en = FALSE
    /\ ctr1_en = FALSE
    /\ ctr0_intr = FALSE
    /\ ctr1_intr = FALSE
    /\ ctr0_intr_p = 0
    /\ ctr1_intr_p = 0
    /\ ctr0 = 0
    /\ ctr1 = 0
    /\ dt_adjust = 0
    /\ timestamp = 0
    /\ secs = 0
    /\ en_ticks0 = 0
    /\ en_ticks1 = 0
    /\ dt_set = NoDtSet
    /\ rst = NoRst
    /\ ctr0_base = sdl_ctr
    /\ ctr1_base = sdl_ctr

-----------------------------------------------------------------------------
(***************************************************************************)
(* SpecVDP: the guest submits command buffers and polls, the host ticks.    *)
(* VRAM holds any image over Words and does not change after start-up.     *)
(***************************************************************************)
InitVDP ==
    /\ vram \in [0..(VramWords - 1) -> Words]
    /\ InitVdpDev
    /\ InitMachineVars
    /\ InitUartVars
    /\ sdl_ctr \in StartCtrs
    /\ InitClockVars
    /\ last = NoOp

\* Registers the guest polls while it waits for a command buffer.
VdpReadRegs == {REG_STATUS, REG_CMDPORT}

NextVDP ==
    \/ \E a \in Addrs : SetReg(REG_CMDPORT, a)
    \/ \E reg \in VdpReadRegs : GetReg(reg)
    \/ Tick

SpecVDP == InitVDP /\ [][NextVDP]_vars

-----------------------------------------------------------------------------
(***************************************************************************)
(* What VRAM says about a command buffer, read off the opcode table of the *)
(* interpreter's documentation: every command 0x00..0x07 is a header and   *)
(* one operand word, except 0x01 with two; 0xFF ends the buffer with the   *)
(* token of its header; anything else is a fault.                          *)
(***************************************************************************)
CmdWords(op) == IF op = 1 THEN 3 ELSE 2

\* How the buffer at addr ends: "eoq" with a token, "cmd" at an undefined
\* opcode, or "oob" when it runs past the end of VRAM.
RECURSIVE Scan(_)
Scan(addr) ==
    IF addr \notin DOMAIN vram THEN [end |-> "oob", tok |-> 0]
    ELSE LET op == vram[addr] % 256
         IN  IF op = 255 THEN [end |-> "eoq", tok |-> vram[addr] \div 256]
             ELSE IF op \in 0..7 THEN
                    (IF addr + CmdWords(op) - 1 \notin DOMAIN vram
                     THEN [end |-> "oob", tok |-> 0]
                     ELSE Scan(addr + CmdWords(op)))
             ELSE [end |-> "cmd", tok |-> 0]

\* The tokens the buffers at addrs push, in order.
RECURSIVE TokensOf(_)
TokensOf(addrs) ==
    IF addrs = <<>> THEN <<>>
    ELSE (IF Scan(Head(addrs)).end = "eoq" THEN <<Scan(Head(addrs)).tok>> ELSE <<>>)
         \o TokensOf(Tail(addrs))

\* The buffer at a is [WRITE_INTERNAL_REGISTER(reg, val), END_OF_QUEUE(token)].
IsWriteBuf(a) ==
    /\ a + 2 < VramWords
    /\ vram[a] % 256 = 0
    /\ vram[a + 2] % 256 = 255

BufReg(a) == (vram[a] \div 256) % 256
BufVal(a) == vram[a + 1]
BufTok(a) == vram[a + 2] \div 256

IsPrefix(p, q) == Len(p) <= Len(q) /\ SubSeq(q, 1, Len(p)) = p

LastCmdportRead == last.op = "get_reg" /\ last.slot = REG_CMDPORT

\* The addresses the tick that has just run interpreted.
TickRun == SubSeq(execLog, Len(execLog) - last.pre + 1, Len(execLog))

-----------------------------------------------------------------------------
(***************************************************************************)
(* Claims on the VDP, checked under SpecVDP.                               *)
(***************************************************************************)

\* C2: on a VDP that has been given one command buffer
\* [WRITE_INTERNAL_REGISTER(r, v), END_OF_QUEUE(t)] and has interpreted it,
\* internal_reg[r] = v, the only token ever pushed is t (queued, or taken by a
\* CMDPORT read), a CMDPORT read that finds the token returns t and one that
\* finds the queue empty returns 0.
C2_WriteThenToken ==
    \A a \in Addrs :
        (submitted = <<a>> /\ execLog = <<a>> /\ IsWriteBuf(a)) =>
            /\ ~panicked
            /\ internal_reg[BufReg(a)] = BufVal(a)
            /\ popped \o last_cmd_tok = <<BufTok(a)>>
            /\ LastCmdportRead =>
                  last.ret = (IF last.pre > 0 THEN BufTok(a) ELSE 0)

\* C2 witness: the buffer was submitted, ticked, its token 42 read, and a
\* second CMDPORT read has returned 0.
C2_Witness ==
    /\ submitted = <<0>> /\ execLog = <<0>> /\ IsWriteBuf(0)
    /\ BufTok(0) = 42 /\ internal_reg[5] = BufVal(0) /\ BufVal(0) # 0
    /\ popped = <<42>>
    /\ LastCmdportRead /\ last.pre = 0 /\ last.ret = 0

\* C3: after a tick that interpreted a buffer ending at an undefined opcode,
\* err_mode is CmdError, the tokens pushed so far are exactly those of the
\* buffers that reached END_OF_QUEUE (none for the faulting one), and a
\* write buffer interpreted last in that tick has had its register write
\* applied and its token pushed.
C3_UndefinedOpcode ==
    (last.op = "tick" /\ ~panicked
       /\ \E i \in 1..Len(TickRun) : Scan(TickRun[i]).end = "cmd") =>
        /\ err_mode = "CmdError"
        /\ popped \o last_cmd_tok = TokensOf(execLog)
        /\ LET b == TickRun[Len(TickRun)]
           IN  IsWriteBuf(b) =>
                 /\ internal_reg[BufReg(b)] = BufVal(b)
                 /\ last_cmd_tok # <<>>
                 /\ last_cmd_tok[Len(last_cmd_tok)] = BufTok(b)

\* C3 witness: one tick took a buffer with an undefined opcode and then a
\* write buffer; only the second pushed its token.
C3_Witness ==
    /\ last.op = "tick" /\ last.pre = 2 /\ ~panicked
    /\ Len(execLog) = 2
    /\ Scan(execLog[1]).end = "cmd"
    /\ IsWriteBuf(execLog[2])
    /\ err_mode = "CmdError"
    /\ last_cmd_tok = <<BufTok(execLog[2])>>
    /\ internal_reg[5] = BufVal(execLog[2]) /\ BufVal(execLog[2]) # 0

\* C4 (as claimed): a tick that took one buffer whose start address is not a
\* multiple of 4 leaves err_mode = AddressError, no token and internal_reg
\* untouched.
C4_MisalignedRejected ==
    (last.op = "tick" /\ last.pre = 1 /\ submitted = execLog
       /\ Len(execLog) = 1 /\ execLog[1] % 4 # 0) =>
        /\ err_mode = "AddressError"
        /\ popped \o last_cmd_tok = <<>>
        /\ internal_reg = [r \in Regs |-> 0]

\* C5: buffers are interpreted in submission order and their tokens come
\* back in that order: the addresses interpreted so far are a prefix of the
\* addresses submitted, the tokens read so far followed by the tokens still
\* queued are the tokens of the interpreted buffers in that order, and a
\* CMDPORT read that found the queue empty returned 0.
C5_SubmissionOrder ==
    /\ IsPrefix(execLog, submitted)
    /\ popped \o last_cmd_tok = TokensOf(execLog)
    /\ (LastCmdportRead /\ last.pre = 0) => last.ret = 0
    /\ (LastCmdportRead /\ last.pre > 0) =>
          (popped # <<>> /\ last.ret = popped[Len(popped)])

\* C5 witness: two different buffers with different tokens were submitted,
\* interpreted, both tokens read in order, and a third read returned 0.
C5_Witness ==
    /\ Len(submitted) = 2 /\ submitted[1] # submitted[2]
    /\ execLog = submitted
    /\ popped = <<Scan(submitted[1]).tok, Scan(submitted[2]).tok>>
    /\ Scan(submitted[1]).end = "eoq" /\ Scan(submitted[2]).end = "eoq"
    /\ popped[1] # popped[2]
    /\ LastCmdportRead /\ last.pre = 0 /\ last.ret = 0

\* C6: a tick takes exactly what cmd_fifo held: what was submitted is what
\* has been interpreted followed by what is still queued; right after a tick
\* cmd_fifo is empty; an address submitted after a tick waits in cmd_fifo;
\* and a STATUS read has STATUSBIT_CMDFIFOEMPTY exactly when cmd_fifo is empty.
C6_TickDrainsSnapshot ==
    ~panicked =>
        /\ submitted = execLog \o cmd_fifo
        /\ last.op = "tick" => cmd_fifo = <<>>
        /\ (last.op = "set_reg" /\ last.slot = REG_CMDPORT) =>
              (cmd_fifo # <<>> /\ cmd_fifo[Len(cmd_fifo)] = last.val
                 /\ Len(cmd_fifo) = last.pre + 1)
        /\ (last.op = "get_reg" /\ last.slot = REG_STATUS) =>
              (Bit(last.ret, STATUSBIT_CMDFIFOEMPTY) <=> cmd_fifo = <<>>)

\* C6 witness: a tick interpreted one buffer, a second was submitted after
\* it and is still queued, and a STATUS read shows the FIFO as not empty.
C6_Witness ==
    /\ ~panicked
    /\ Len(execLog) = 1 /\ Len(cmd_fifo) = 1 /\ Len(submitted) = 2
    /\ last.op = "get_reg" /\ last.slot = REG_STATUS
    /\ ~Bit(last.ret, STATUSBIT_CMDFIFOEMPTY)

\* C6 witness, second case: a STATUS read right after a tick that drained a
\* two-entry FIFO shows it empty.
C6_WitnessEmpty ==
    /\ ~panicked
    /\ Len(execLog) = 2 /\ cmd_fifo = <<>>
    /\ last.op = "get_reg" /\ last.slot = REG_STATUS
    /\ Bit(last.ret, STATUSBIT_CMDFIFOEMPTY)

-----------------------------------------------------------------------------
(***************************************************************************)
(* uart.rs                                                                 *)
(***************************************************************************)
\* Bytes the host ever pushes between two resets.
MaxPush == 2
\* Length of one push_input slice.
MaxInput == 2
\* Bytes the guest writes to TX in one behaviour.
MaxTx == 1

UART_STATUS == 0
UART_TX == 1
UART_RX == 2

UART_TX_EMPTY == 2
UART_RX_EMPTY == 8

\* Bytes the host feeds.
UartBytes == {0, 65, 255}

\* Register slots the guest uses: the three defined ones and one past them.
UartSlots == 0..3

\* Values the guest writes: the reset bit clear, and the reset bit set with
\* bits above the low byte.
UartVals == {2, 321}

\* Slices of UartBytes of length 1..MaxInput.
UartInputs == UNION { [1..n -> UartBytes] : n \in 1..MaxInput }

RxPopBack(q) == [val |-> q[Len(q)], rest |-> SubSeq(q, 1, Len(q) - 1)]

\* rx.pop_front() on a non-empty queue: the byte and what is left.
RxPopFront(q) == [val |-> Head(q), rest |-> Tail(q)]

\* UART::read's return value.
\* A read whose default arm answers as STATUS does.
UartReadDefaultStatus(addr) ==
    CASE addr = UART_RX ->
            (IF rx # <<>> THEN RxPopFront(rx).val ELSE 0)
      [] OTHER ->
            UART_TX_EMPTY + (IF Len(rx) = 0 THEN UART_RX_EMPTY ELSE 0)

\* UART::read's return value.
uart_read(addr) ==
    CASE addr = UART_STATUS ->
            UART_TX_EMPTY + (IF Len(rx) = 0 THEN UART_RX_EMPTY ELSE 0)
      [] addr = UART_RX ->
            (IF rx # <<>> THEN RxPopFront(rx).val ELSE 0)
      [] OTHER -> 0

\* UART::push_input(input)
PushInputEffect(input) ==
    /\ Len(uart_in) + Len(input) <= MaxPush
    /\ rx' = rx \o input
    /\ uart_in' = uart_in \o input
    /\ last' = Op("push_input", 0, 0, 0, Len(rx))
    /\ UNCHANGED <<tx, flushed, uart_got>>

\* UART::push_input(input), nothing else moving.
PushInput(input) ==
    /\ PushInputEffect(input)
    /\ UNCHANGED <<machineVars, vdpVars, clockVars>>

\* UART::read(addr)
UartReadEffect(addr) ==
    /\ last' = Op("uart_read", addr, 0, uart_read(addr), Len(rx))
    /\ IF addr = UART_RX /\ rx # <<>>
       THEN /\ rx' = RxPopFront(rx).rest
            /\ uart_got' = Append(uart_got, uart_read(addr))
       ELSE UNCHANGED <<rx, uart_got>>
    /\ UNCHANGED <<tx, flushed, uart_in>>

\* UART::read(addr), nothing else moving.
UartRead(addr) ==
    /\ UartReadEffect(addr)
    /\ UNCHANGED <<machineVars, vdpVars, clockVars>>

\* A STATUS write that resets without testing bit 0.
UartWriteResetsAlways(addr, val) ==
    /\ addr = UART_TX => Len(tx) < MaxTx
    /\ last' = Op("uart_write", addr, val, 0, Len(rx))
    /\ IF addr = UART_STATUS
       THEN /\ rx' = <<>>
            /\ flushed' = Len(tx)
            /\ uart_in' = <<>>
            /\ uart_got' = <<>>
            /\ UNCHANGED tx
       ELSE /\ tx' = IF addr = UART_TX THEN Append(tx, val % 256) ELSE tx
            /\ UNCHANGED <<rx, flushed, uart_in, uart_got>>

\* UART::write(addr, val)
UartWriteEffect(addr, val) ==
    /\ addr = UART_TX => Len(tx) < MaxTx
    /\ last' = Op("uart_write", addr, val, 0, Len(rx))
    /\ IF addr = UART_STATUS /\ Bit(val, 1)
       THEN /\ rx' = <<>>
            /\ flushed' = Len(tx)
            /\ uart_in' = <<>>
            /\ uart_got' = <<>>
            /\ UNCHANGED tx
       ELSE /\ tx' = IF addr = UART_TX THEN Append(tx, val % 256) ELSE tx
            /\ UNCHANGED <<rx, flushed, uart_in, uart_got>>

\* UART::write(addr, val), nothing else moving.
UartWrite(addr, val) ==
    /\ UartWriteEffect(addr, val)
    /\ UNCHANGED <<machineVars, vdpVars, clockVars>>

InitUART ==
    /\ InitUartVars
    /\ vram = MainImage
    /\ InitVdpDev
    /\ InitMachineVars
    /\ sdl_ctr \in StartCtrs
    /\ InitClockVars
    /\ last = NoOp

NextUART ==
    \/ \E input \in UartInputs : PushInput(input)
    \/ \E addr \in UartSlots : UartRead(addr)
    \/ \E addr \in UartSlots, val \in UartVals : UartWrite(addr, val)

SpecUART == InitUART /\ [][NextUART]_vars

LastRxRead == last.op = "uart_read" /\ last.slot = UART_RX

\* C7: the receive queue is a FIFO: the bytes RX reads have returned so far
\* followed by the bytes still pending are the bytes pushed, in push order;
\* an RX read that found the queue empty returned 0; a STATUS read has bit 3
\* (value 8) set exactly when no byte is pending.
C7_RxFifo ==
    /\ uart_in = uart_got \o rx
    /\ (LastRxRead /\ last.pre = 0) => last.ret = 0
    /\ (LastRxRead /\ last.pre > 0) =>
          (uart_got # <<>> /\ last.ret = uart_got[Len(uart_got)])
    /\ (last.op = "uart_read" /\ last.slot = UART_STATUS) =>
          (Bit(last.ret, UART_RX_EMPTY) <=> rx = <<>>)

\* C7 witness: two different bytes were pushed on an empty queue and read
\* back in order, and a third RX read has returned 0.
C7_Witness ==
    /\ Len(uart_in) = 2 /\ uart_in[1] # uart_in[2]
    /\ uart_got = uart_in /\ rx = <<>>
    /\ LastRxRead /\ last.pre = 0 /\ last.ret = 0

-----------------------------------------------------------------------------
(***************************************************************************)
(* clock.rs                                                                *)
(***************************************************************************)
\* Width of a register word. It is 32 in the program; the model narrows it
\* so that the values a register can hold, and their wrap-around, are within
\* reach. The counters are two words wide.
WordBits == 1
\* Host ticks the counter clock advances to.
MaxCtr == 4
\* Host seconds the RTC clock advances to.
MaxSecs == 3

WordMod == 2 ^ WordBits

\* Every value a register word can hold.
WordVals == 0..(WordMod - 1)

\* (x as u32) of an i64
AsU32(x) == x % WordMod

\* (x & 0xFFFFFFFF) as u32 and (x >> 32) as u32 of a u64
LoWord(x) == x % WordMod
HiWord(x) == (x \div WordMod) % WordMod

CLK_STATUS == 0
CLK_DT == 1
CLK_CTR0LO == 2
CLK_CTR0HI == 3
CLK_CTR1LO == 4
CLK_CTR1HI == 5
CLK_CTR0P == 6
CLK_CTR1P == 7

CLKBIT_RTC_EN == 1
CLKBIT_CTR0_EN == 2
CLKBIT_CTR1_EN == 4
CLKBIT_CTR0_RESET == 8
CLKBIT_CTR1_RESET == 16
CLKBIT_CTR0_INTR == 32
CLKBIT_CTR1_INTR == 64

\* get_sdl_ctr() advances by one host tick.
CtrAdvance ==
    /\ sdl_ctr < MaxCtr
    /\ sdl_ctr' = sdl_ctr + 1
    /\ en_ticks0' = IF ctr0_en THEN en_ticks0 + 1 ELSE en_ticks0
    /\ en_ticks1' = IF ctr1_en THEN en_ticks1 + 1 ELSE en_ticks1
    /\ last' = Op("ctr_advance", 0, 0, 0, 0)
    /\ UNCHANGED <<ctr0_en, ctr1_en, ctr0, ctr1, ctr0_base, ctr1_base>>
    /\ UNCHANGED <<rtcVars, clockRest, clockHist, machineVars, vdpVars, uartVars>>

\* Instant::now() advances by one second.
SecAdvance ==
    /\ secs < MaxSecs
    /\ secs' = secs + 1
    /\ last' = Op("sec_advance", 0, 0, 0, 0)
    /\ UNCHANGED <<rtc_en, dt_adjust, timestamp>>
    /\ UNCHANGED <<ctrVars, clockRest, clockHist, machineVars, vdpVars, uartVars>>

\* An enabled counter's value at a LO read: get_sdl_ctr() - base
CounterRunning(now, base) == now - base

\* A base that forgets the latched value: the counter restarts from zero.
RebaseToNow(now, ctr) == now

\* A disabled counter's base at a LO read: get_sdl_ctr() - ctr
Rebase(now, ctr) == now - ctr

\* The DT register after a read: timestamp while enabled is secs + dt_adjust.
DtTimestamp == IF rtc_en THEN AsU32(secs + dt_adjust) ELSE timestamp

\* Clock::read whose HI arms sample the running counter instead of returning
\* the latched value's high word.
ClockReadHiSamples(addr) ==
    CASE addr = CLK_STATUS ->
            (IF rtc_en THEN CLKBIT_RTC_EN ELSE 0)
          + (IF ctr0_en THEN CLKBIT_CTR0_EN ELSE 0)
          + (IF ctr1_en THEN CLKBIT_CTR1_EN ELSE 0)
          + (IF ctr0_intr THEN CLKBIT_CTR0_INTR ELSE 0)
          + (IF ctr1_intr THEN CLKBIT_CTR1_INTR ELSE 0)
      [] addr = CLK_DT -> DtTimestamp
      [] addr = CLK_CTR0LO ->
            LoWord(IF ctr0_en THEN CounterRunning(sdl_ctr, ctr0_base) ELSE ctr0)
      [] addr = CLK_CTR0HI ->
            HiWord(IF ctr0_en THEN CounterRunning(sdl_ctr, ctr0_base) ELSE ctr0)
      [] addr = CLK_CTR1LO ->
            LoWord(IF ctr1_en THEN CounterRunning(sdl_ctr, ctr1_base) ELSE ctr1)
      [] addr = CLK_CTR1HI ->
            HiWord(IF ctr1_en THEN CounterRunning(sdl_ctr, ctr1_base) ELSE ctr1)
      [] addr = CLK_CTR0P -> ctr0_intr_p
      [] addr = CLK_CTR1P -> ctr1_intr_p
      [] OTHER -> 0

\* Clock::read's return value.
clock_read(addr) ==
    CASE addr = CLK_STATUS ->
            (IF rtc_en THEN CLKBIT_RTC_EN ELSE 0)
          + (IF ctr0_en THEN CLKBIT_CTR0_EN ELSE 0)
          + (IF ctr1_en THEN CLKBIT_CTR1_EN ELSE 0)
          + (IF ctr0_intr THEN CLKBIT_CTR0_INTR ELSE 0)
          + (IF ctr1_intr THEN CLKBIT_CTR1_INTR ELSE 0)
      [] addr = CLK_DT -> DtTimestamp
      [] addr = CLK_CTR0LO ->
            LoWord(IF ctr0_en THEN CounterRunning(sdl_ctr, ctr0_base) ELSE ctr0)
      [] addr = CLK_CTR0HI -> HiWord(ctr0)
      [] addr = CLK_CTR1LO ->
            LoWord(IF ctr1_en THEN CounterRunning(sdl_ctr, ctr1_base) ELSE ctr1)
      [] addr = CLK_CTR1HI -> HiWord(ctr1)
      [] addr = CLK_CTR0P -> ctr0_intr_p
      [] addr = CLK_CTR1P -> ctr1_intr_p
      [] OTHER -> 0

\* Clock::read(addr)
ClockReadEffect(addr) ==
    /\ last' = Op("clock_read", addr, 0, clock_read(addr), 0)
    /\ timestamp' = IF addr = CLK_DT THEN DtTimestamp ELSE timestamp
    /\ dt_adjust' = IF addr = CLK_DT /\ ~rtc_en THEN timestamp - secs ELSE dt_adjust
    /\ ctr0' = IF addr = CLK_CTR0LO /\ ctr0_en
               THEN CounterRunning(sdl_ctr, ctr0_base) ELSE ctr0
    /\ ctr0_base' = IF addr = CLK_CTR0LO /\ ~ctr0_en
                    THEN Rebase(sdl_ctr, ctr0) ELSE ctr0_base
    /\ ctr1' = IF addr = CLK_CTR1LO /\ ctr1_en
               THEN CounterRunning(sdl_ctr, ctr1_base) ELSE ctr1
    /\ ctr1_base' = IF addr = CLK_CTR1LO /\ ~ctr1_en
                    THEN Rebase(sdl_ctr, ctr1) ELSE ctr1_base
    /\ dt_set' = IF addr = CLK_DT /\ ~rtc_en THEN NoDtSet ELSE dt_set
    /\ UNCHANGED <<rtc_en, secs, ctr0_en, ctr1_en, sdl_ctr, en_ticks0, en_ticks1>>
    /\ UNCHANGED <<clockRest, rst>>

\* Clock::read(addr), nothing else moving.
ClockRead(addr) ==
    /\ ClockReadEffect(addr)
    /\ UNCHANGED <<machineVars, vdpVars, uartVars>>

\* A STATUS write whose reset bits zero the value but leave the base.
ClockWriteStatusKeepsBase(val) ==
    /\ rtc_en' = Bit(val, CLKBIT_RTC_EN)
    /\ ctr0_en' = Bit(val, CLKBIT_CTR0_EN)
    /\ ctr1_en' = Bit(val, CLKBIT_CTR1_EN)
    /\ ctr0_intr' = Bit(val, CLKBIT_CTR0_INTR)
    /\ ctr1_intr' = Bit(val, CLKBIT_CTR1_INTR)
    /\ IF Bit(val, CLKBIT_CTR0_RESET)
       THEN ctr0' = 0 /\ en_ticks0' = 0 /\ UNCHANGED ctr0_base
       ELSE UNCHANGED <<ctr0_base, ctr0, en_ticks0>>
    /\ IF Bit(val, CLKBIT_CTR1_RESET)
       THEN ctr1' = 0 /\ en_ticks1' = 0 /\ UNCHANGED ctr1_base
       ELSE UNCHANGED <<ctr1_base, ctr1, en_ticks1>>
    /\ timestamp' = AsU32(secs + dt_adjust)
    /\ UNCHANGED <<dt_adjust, secs, sdl_ctr, ctr0_intr_p, ctr1_intr_p>>

\* Clock::write(STATUS, val)
ClockWriteStatus(val) ==
    /\ rtc_en' = Bit(val, CLKBIT_RTC_EN)
    /\ ctr0_en' = Bit(val, CLKBIT_CTR0_EN)
    /\ ctr1_en' = Bit(val, CLKBIT_CTR1_EN)
    /\ ctr0_intr' = Bit(val, CLKBIT_CTR0_INTR)
    /\ ctr1_intr' = Bit(val, CLKBIT_CTR1_INTR)
    /\ IF Bit(val, CLKBIT_CTR0_RESET)
       THEN ctr0_base' = sdl_ctr /\ ctr0' = 0 /\ en_ticks0' = 0
       ELSE UNCHANGED <<ctr0_base, ctr0, en_ticks0>>
    /\ IF Bit(val, CLKBIT_CTR1_RESET)
       THEN ctr1_base' = sdl_ctr /\ ctr1' = 0 /\ en_ticks1' = 0
       ELSE UNCHANGED <<ctr1_base, ctr1, en_ticks1>>
    /\ timestamp' = AsU32(secs + dt_adjust)
    /\ UNCHANGED <<dt_adjust, secs, sdl_ctr, ctr0_intr_p, ctr1_intr_p>>

\* The adjustment a DT write stores, with the seconds since startup forgotten.
DtAdjustFromZero(val, now_secs) == val

\* The adjustment a DT write stores: desired_secs - secs_since_startup
DtAdjust(val, now_secs) == val - now_secs

\* Clock::write(addr, val)
ClockWriteEffect(addr, val) ==
    /\ last' = Op("clock_write", addr, val, 0, 0)
    /\ IF addr = CLK_STATUS
       THEN /\ ClockWriteStatus(val)
            /\ dt_set' = IF rtc_en /\ ~Bit(val, CLKBIT_RTC_EN) THEN NoDtSet ELSE dt_set
            /\ rst' = IF Bit(val, CLKBIT_CTR0_RESET) \/ Bit(val, CLKBIT_CTR1_RESET)
                      THEN [val |-> val, at |-> sdl_ctr] ELSE NoRst
       ELSE /\ dt_adjust' = IF addr = CLK_DT /\ ~rtc_en THEN DtAdjust(val, secs)
                            ELSE dt_adjust
            /\ ctr0_intr_p' = IF addr = CLK_CTR0P THEN val ELSE ctr0_intr_p
            /\ ctr1_intr_p' = IF addr = CLK_CTR1P THEN val ELSE ctr1_intr_p
            /\ dt_set' = IF addr = CLK_DT /\ ~rtc_en
                         THEN [ok |-> TRUE, v |-> val, at |-> secs] ELSE dt_set
            /\ UNCHANGED <<rtc_en, timestamp, secs, ctrVars, ctr0_intr, ctr1_intr, rst>>

\* Clock::write(addr, val), nothing else moving.
ClockWrite(addr, val) ==
    /\ ClockWriteEffect(addr, val)
    /\ UNCHANGED <<machineVars, vdpVars, uartVars>>

InitClock ==
    /\ sdl_ctr \in StartCtrs
    /\ InitClockVars
    /\ InitUartVars
    /\ vram = MainImage
    /\ InitVdpDev
    /\ InitMachineVars
    /\ last = NoOp

\* SpecClockRtc: the guest works the RTC (STATUS bit 0, DT) while seconds pass.
RtcStatusVals == {0, CLKBIT_RTC_EN}

NextClockRtc ==
    \/ SecAdvance
    \/ \E addr \in {CLK_STATUS, CLK_DT} : ClockRead(addr)
    \/ \E val \in RtcStatusVals : ClockWrite(CLK_STATUS, val)
    \/ \E val \in WordVals : ClockWrite(CLK_DT, val)

SpecClockRtc == InitClock /\ [][NextClockRtc]_vars

\* SpecClockCtr: the guest enables, disables and reads the two counters
\* while host ticks pass; it never writes a reset bit.
CtrStatusVals ==
    { 0, CLKBIT_CTR0_EN, CLKBIT_CTR1_EN, CLKBIT_CTR0_EN + CLKBIT_CTR1_EN }

CtrReadSlots == {CLK_CTR0LO, CLK_CTR0HI, CLK_CTR1LO, CLK_CTR1HI}

NextClockCtr ==
    \/ CtrAdvance
    \/ \E addr \in CtrReadSlots : ClockRead(addr)
    \/ \E val \in CtrStatusVals : ClockWrite(CLK_STATUS, val)

SpecClockCtr == InitClock /\ [][NextClockCtr]_vars

-----------------------------------------------------------------------------
(***************************************************************************)
(* Claims on the clock.                                                    *)
(***************************************************************************)

\* C8 (as claimed), under SpecClockRtc: a DT read that directly follows a DT
\* write made while rtc_en is false returns the value written.
C8_DtReadBack ==
    [][ (/\ last.op = "clock_write" /\ last.slot = CLK_DT
         /\ ~rtc_en
         /\ last'.op = "clock_read" /\ last'.slot = CLK_DT)
        => last'.ret = last.val ]_vars

LastCtr0Read == last.op = "clock_read" /\ last.slot = CLK_CTR0LO
LastCtr1Read == last.op = "clock_read" /\ last.slot = CLK_CTR1LO

\* C9, under SpecClockCtr (enable bits toggled, no reset): a CTRnLO read never
\* latches a value below the one the previous read latched, it latches the same
\* value when the counter is disabled, and the word it returns is the low word
\* of the latched value. The value of a counter is the two-word value a LO read
\* latches and LO / HI return the halves of.
C9_CounterMonotone ==
    [][ /\ LastCtr0Read' =>
              /\ ctr0' >= ctr0
              /\ ~ctr0_en => ctr0' = ctr0
              /\ last'.ret = LoWord(ctr0')
        /\ LastCtr1Read' =>
              /\ ctr1' >= ctr1
              /\ ~ctr1_en => ctr1' = ctr1
              /\ last'.ret = LoWord(ctr1') ]_vars

\* C9 witness: ctr0 ran, was disabled and read (which moved its base), ran
\* again, and a read while enabled has just latched 2.
C9_Witness ==
    /\ LastCtr0Read /\ ctr0_en
    /\ ctr0 = 2 /\ en_ticks0 = 2
    /\ ctr0_base \notin StartCtrs

\* C10 (as claimed), under SpecClockCtr: the value a CTRnLO read latches is
\* the number of host ticks that passed while the counter was enabled.
C10_EnableLossless ==
    /\ LastCtr0Read => ctr0 = en_ticks0
    /\ LastCtr1Read => ctr1 = en_ticks1

-----------------------------------------------------------------------------
(***************************************************************************)
(* The machine: the worker thread Machine::run() spawns, main()'s frame    *)
(* loop, and MachineRunContext::stop().                                    *)
(*                                                                         *)
(* cpu_signal is an rsevents AutoResetEvent: set() makes it available,     *)
(* wait() blocks until it is available and takes it, and a wait() that     *)
(* returns has acquired what the host did before the set() calls that      *)
(* precede it.  stop_signal is read with a Relaxed load: a load that no    *)
(* set() of stop() precedes may still return the old value.                *)
(***************************************************************************)
MaxTicks == 5

\* The frame loop caps the accumulator at four timesteps.
MaxAccum == 4

\* Whole timesteps that can have passed between two passes of the frame loop.
FrameSteps == 0..(MaxAccum + 1)

\* The worker's emu_start() returns: the guest reached a wait instruction.
GuestWfi ==
    /\ wpc = "emu"
    /\ wpc' = "wait"
    /\ UNCHANGED <<hpc, cpu_signal, stop_signal, stop_seen, wpc_at_stop, accum,
                   n_tick, n_raise>>
    /\ UNCHANGED <<machineHist, busVars, vdpVars, uartVars, clockVars, last>>

\* wait() on a manual-reset event: the event stays available.
WaitReleaseManualReset ==
    /\ wpc = "wait"
    /\ cpu_signal
    /\ stop_seen' = (hpc \in {"join", "done"})
    /\ wpc' = "check"
    /\ n_release' = n_release + 1
    /\ pending' = 0
    /\ UNCHANGED <<hpc, cpu_signal, stop_signal, wpc_at_stop, accum, n_tick, n_raise,
                   emu_raises>>
    /\ UNCHANGED <<busVars, vdpVars, uartVars, clockVars, last>>

\* wait() that can return without the event being available.
WaitReleaseSpurious ==
    /\ wpc = "wait"
    /\ cpu_signal' = FALSE
    /\ stop_seen' = (hpc \in {"join", "done"})
    /\ wpc' = "check"
    /\ n_release' = n_release + 1
    /\ pending' = 0
    /\ UNCHANGED <<hpc, stop_signal, wpc_at_stop, accum, n_tick, n_raise, emu_raises>>
    /\ UNCHANGED <<busVars, vdpVars, uartVars, clockVars, last>>

\* cpu_signal.wait() returns: the event was available and is taken.
WaitRelease ==
    /\ wpc = "wait"
    /\ cpu_signal
    /\ cpu_signal' = FALSE
    /\ stop_seen' = (hpc \in {"join", "done"})
    /\ wpc' = "check"
    /\ n_release' = n_release + 1
    /\ pending' = 0
    /\ UNCHANGED <<hpc, stop_signal, wpc_at_stop, accum, n_tick, n_raise, emu_raises>>
    /\ UNCHANGED <<busVars, vdpVars, uartVars, clockVars, last>>

\* The test inverted: if !stop_signal.load(Relaxed) { break; }
StopLoadsNegated == {~stop_signal}

\* The values stop_signal.load(Relaxed) can return to the worker.
StopLoads ==
    IF stop_signal /\ ~stop_seen THEN {TRUE, FALSE} ELSE {stop_signal}

\* if stop_signal.load(Relaxed) { break; }
CheckStop ==
    /\ wpc = "check"
    /\ \E seen \in StopLoads :
           /\ wpc' = IF seen THEN "exited" ELSE "emu"
           /\ emu_raises' = IF seen THEN emu_raises ELSE 0
    /\ UNCHANGED <<hpc, cpu_signal, stop_signal, stop_seen, wpc_at_stop, accum,
                   n_tick, n_raise, n_release, pending>>
    /\ UNCHANGED <<busVars, vdpVars, uartVars, clockVars, last>>

\* One pass of the frame loop up to the tick loop: no quit event, and `steps`
\* whole timesteps have passed since the last pass.
HostFrame(steps) ==
    /\ hpc = "poll"
    /\ accum' = IF accum + steps >= MaxAccum THEN MaxAccum ELSE accum + steps
    /\ n_tick + accum' <= MaxTicks
    /\ hpc' = IF accum' >= 1 THEN "tick" ELSE "poll"
    /\ UNCHANGED <<wpc, cpu_signal, stop_signal, stop_seen, wpc_at_stop, n_tick,
                   n_raise>>
    /\ UNCHANGED <<machineHist, busVars, vdpVars, uartVars, clockVars, last>>

\* The loop body without its raise_signal(): after the tick the loop tests
\* accum again.
HostTickWithoutRaise ==
    /\ hpc = "tick"
    /\ ~panicked
    /\ accum' = accum - 1
    /\ n_tick' = n_tick + 1
    /\ TickEffect
    /\ last' = Op("tick", 0, 0, 0, Len(cmd_fifo))
    /\ hpc' = IF accum' >= 1 THEN "tick" ELSE "poll"
    /\ UNCHANGED <<wpc, cpu_signal, stop_signal, stop_seen, wpc_at_stop, n_raise>>
    /\ UNCHANGED <<machineHist, busVars, uartVars, clockVars>>

\* accum -= TIMESTEP; vdp.tick(..)
HostTick ==
    /\ hpc = "tick"
    /\ ~panicked
    /\ accum' = accum - 1
    /\ n_tick' = n_tick + 1
    /\ TickEffect
    /\ last' = Op("tick", 0, 0, 0, Len(cmd_fifo))
    /\ hpc' = "raise"
    /\ UNCHANGED <<wpc, cpu_signal, stop_signal, stop_seen, wpc_at_stop, n_raise>>
    /\ UNCHANGED <<machineHist, busVars, uartVars, clockVars>>

\* MachineRunContext::raise_signal(), then the tick loop's test.
raise_signal ==
    /\ hpc = "raise"
    /\ cpu_signal' = TRUE
    /\ n_raise' = n_raise + 1
    /\ hpc' = IF accum >= 1 THEN "tick" ELSE "poll"
    /\ pending' = pending + 1
    /\ emu_raises' = IF wpc = "emu" THEN emu_raises + 1 ELSE emu_raises
    /\ UNCHANGED <<wpc, stop_signal, stop_seen, wpc_at_stop, accum, n_tick,
                   n_release>>
    /\ UNCHANGED <<busVars, vdpVars, uartVars, clockVars, last>>

\* Event::Quit leaves the frame loop; stop() stores the flag.
StopStore ==
    /\ hpc = "poll"
    /\ stop_signal' = TRUE
    /\ wpc_at_stop' = wpc
    /\ hpc' = "stop_set"
    /\ UNCHANGED <<wpc, cpu_signal, stop_seen, accum, n_tick, n_raise>>
    /\ UNCHANGED <<machineHist, busVars, vdpVars, uartVars, clockVars, last>>

\* stop() without its cpu_signal.set(): the worker is not woken.
StopSetMissing ==
    /\ hpc = "stop_set"
    /\ hpc' = "join"
    /\ UNCHANGED <<wpc, cpu_signal, stop_signal, stop_seen, wpc_at_stop, accum,
                   n_tick, n_raise>>
    /\ UNCHANGED <<machineHist, busVars, vdpVars, uartVars, clockVars, last>>

\* stop(): self.cpu_signal.set()
StopSet ==
    /\ hpc = "stop_set"
    /\ cpu_signal' = TRUE
    /\ hpc' = "join"
    /\ pending' = pending + 1
    /\ UNCHANGED <<wpc, stop_signal, stop_seen, wpc_at_stop, accum, n_tick,
                   n_raise, n_release, emu_raises>>
    /\ UNCHANGED <<busVars, vdpVars, uartVars, clockVars, last>>

\* stop(): self.join_handle.join() returns once the worker has exited.
StopJoin ==
    /\ hpc = "join"
    /\ wpc = "exited"
    /\ hpc' = "done"
    /\ UNCHANGED <<wpc, cpu_signal, stop_signal, stop_seen, wpc_at_stop, accum,
                   n_tick, n_raise>>
    /\ UNCHANGED <<machineHist, busVars, vdpVars, uartVars, clockVars, last>>

\* main() after machine.run(): the test buffer is uploaded and submitted.
InitMachine ==
    /\ InitMachineVars
    /\ vram = MainImage
    /\ VdpNew(<<0>>)
    /\ InitUartVars
    /\ sdl_ctr \in StartCtrs
    /\ InitClockVars
    /\ last = NoOp

NextMachine ==
    \/ GuestWfi
    \/ WaitRelease
    \/ CheckStop
    \/ \E steps \in FrameSteps : HostFrame(steps)
    \/ HostTick
    \/ raise_signal
    \/ StopStore
    \/ StopSet
    \/ StopJoin

\* The worker thread is scheduled and its guest code reaches a wait
\* instruction; a started stop() runs on.  The frame loop may run forever.
SpecMachine ==
    /\ InitMachine
    /\ [][NextMachine]_vars
    /\ WF_vars(GuestWfi)
    /\ WF_vars(WaitRelease)
    /\ WF_vars(CheckStop)
    /\ WF_vars(StopSet)
    /\ WF_vars(StopJoin)

\* C1, under SpecMachine: once stop() is called, whatever the worker is doing
\* and whatever raise_signal() calls came before, stop() eventually returns:
\* the worker has left its loop and the join has completed.
C1_StopReturns == (hpc = "stop_set") ~> (hpc = "done" /\ wpc = "exited")

\* C1 witness: stop() was called while the worker was parked in wait() with
\* no raise_signal() ever made, and it has returned.
C1_Witness ==
    /\ hpc = "done"
    /\ wpc_at_stop = "wait"
    /\ n_raise = 0

\* C11, under SpecMachine: the event remembers at most one wakeup.  When
\* raise_signal() was called one or more times while the worker ran guest code
\* and stop is not requested, the event is available at the worker's next park;
\* a release takes the event whatever the number of raises before it, and
\* needs a set() made after the previous release.
C11_WakeupCoalescing ==
    [][ /\ (wpc' = "wait" /\ emu_raises' >= 1 /\ ~stop_signal') => cpu_signal'
        /\ (n_release' = n_release + 1) =>
              (cpu_signal /\ pending >= 1 /\ ~cpu_signal' /\ pending' = 0) ]_vars

\* C11 witness: two or more raises came while the worker ran guest code, its
\* first park was released once, and the event is unavailable again.
C11_Witness ==
    /\ wpc = "check"
    /\ emu_raises >= 2
    /\ n_release = 1
    /\ ~cpu_signal
    /\ ~stop_signal

\* Signal raises so far: raise_signal() calls plus the set() stop() makes.
RaisesSoFar == n_raise + (IF hpc \in {"join", "done"} THEN 1 ELSE 0)

\* C12, under SpecMachine: the worker has been released from its park at most
\* as many times as the host has raised the signal.
C12_ReleaseNeedsRaise == n_release <= RaisesSoFar

\* C12 witness: every raise, the one of stop() included, released a park.
C12_Witness ==
    /\ n_raise >= 1
    /\ hpc = "done"
    /\ n_release = RaisesSoFar

\* C13, under SpecMachine: the worker terminates only from the test that
\* follows a release and only with the stop flag set; a test made after a
\* release that stop()'s set() preceded terminates it; and while stop() has
\* not been called the worker has not terminated, whatever the raises.
C13_StopTestedAfterRelease ==
    [][ /\ (wpc' = "exited" /\ wpc # "exited") => (wpc = "check" /\ stop_signal)
        /\ (wpc = "check" /\ stop_signal /\ stop_seen /\ wpc' # wpc) =>
              wpc' = "exited"
        /\ ~stop_signal' => wpc' # "exited" ]_vars

\* C13 witness: the worker was released several times, the last time by
\* stop(), and has terminated.
C13_Witness ==
    /\ wpc = "exited"
    /\ stop_seen
    /\ n_release >= 2
    /\ n_raise >= 1

-----------------------------------------------------------------------------
(***************************************************************************)
(* The peripheral bus: the MMIO hooks Machine::map_peripheral installs,    *)
(* running on the worker while it executes guest code, next to the frame   *)
(* driver.  UART and Clock live in an Arc<RwLock<..>> each and are reached *)
(* through its write() guard only; the VDP is owned by main() and mapped   *)
(* to no guest address.                                                    *)
(***************************************************************************)
machineRest == <<wpc, hpc, cpu_signal, stop_signal, stop_seen, wpc_at_stop, accum,
                 n_tick, n_raise, machineHist>>

\* The peripherals main() maps for the guest, each behind its own lock.
Mapped == {"uart", "clock"}

\* Byte offsets the guest loads from and stores to, in a mapped window.
HookAddrs == {0, 8}

\* let local_addr = (addr & 0xFFFFFF) >> 2;
local_addr(addr) == (addr % 16777216) \div 4

\* Values the guest stores through the bus.
HookVals == {1}

\* Input the frame driver feeds to the UART.
HookInputs == {<<65>>}

\* The hook takes the lock of a RwLock nobody checks to be free.
MmioLockUnchecked(dev) ==
    /\ wpc = "emu"
    /\ w_op = "none"
    /\ lock' = [lock EXCEPT ![dev] = "worker"]
    /\ w_op' = dev
    /\ UNCHANGED <<h_op, machineRest, vdpVars, uartVars, clockVars, last>>

\* rd / wr hook: let mut dev = device.write().unwrap();
MmioLock(dev) ==
    /\ wpc = "emu"
    /\ w_op = "none"
    /\ lock[dev] = "none"
    /\ lock' = [lock EXCEPT ![dev] = "worker"]
    /\ w_op' = dev
    /\ UNCHANGED <<h_op, machineRest, vdpVars, uartVars, clockVars, last>>

\* rd hook: return dev.read(local_addr) as u64; the guard is dropped.
MmioRead(addr) ==
    /\ w_op \in Mapped
    /\ IF w_op = "uart"
       THEN UartReadEffect(local_addr(addr)) /\ UNCHANGED clockVars
       ELSE ClockReadEffect(local_addr(addr)) /\ UNCHANGED uartVars
    /\ lock' = [lock EXCEPT ![w_op] = "none"]
    /\ w_op' = "none"
    /\ UNCHANGED <<h_op, machineRest, vdpVars>>

\* wr hook: dev.write(local_addr, value); the guard is dropped.
MmioWrite(addr, value) ==
    /\ w_op \in Mapped
    /\ IF w_op = "uart"
       THEN UartWriteEffect(local_addr(addr), value) /\ UNCHANGED clockVars
       ELSE ClockWriteEffect(local_addr(addr), value) /\ UNCHANGED uartVars
    /\ lock' = [lock EXCEPT ![w_op] = "none"]
    /\ w_op' = "none"
    /\ UNCHANGED <<h_op, machineRest, vdpVars>>

\* The frame driver takes the UART's lock to feed input.
HostFeedLock ==
    /\ h_op = "none"
    /\ lock["uart"] = "none"
    /\ lock' = [lock EXCEPT !["uart"] = "host"]
    /\ h_op' = "uart"
    /\ UNCHANGED <<w_op, machineRest, vdpVars, uartVars, clockVars, last>>

\* uart.push_input(input) under the guard; the guard is dropped.
HostFeed(input) ==
    /\ h_op = "uart"
    /\ PushInputEffect(input)
    /\ lock' = [lock EXCEPT !["uart"] = "none"]
    /\ h_op' = "none"
    /\ UNCHANGED <<w_op, machineRest, vdpVars, clockVars>>

\* The frame driver enters vdp.tick(..).
HostTickBegin ==
    /\ h_op = "none"
    /\ ~panicked
    /\ h_op' = "vdp"
    /\ UNCHANGED <<lock, w_op, machineRest, vdpVars, uartVars, clockVars, last>>

\* vdp.tick(..) returns.
HostTickEnd ==
    /\ h_op = "vdp"
    /\ TickEffect
    /\ last' = Op("tick", 0, 0, 0, Len(cmd_fifo))
    /\ h_op' = "none"
    /\ UNCHANGED <<lock, w_op, machineRest, uartVars, clockVars>>

NextBus ==
    \/ \E dev \in Mapped : MmioLock(dev)
    \/ \E addr \in HookAddrs : MmioRead(addr)
    \/ \E addr \in HookAddrs, value \in HookVals : MmioWrite(addr, value)
    \/ HostFeedLock
    \/ \E input \in HookInputs : HostFeed(input)
    \/ HostTickBegin
    \/ HostTickEnd

SpecBus == InitMachine /\ [][NextBus]_vars

\* C14, under SpecBus: the worker and the frame driver are never operating on
\* the same peripheral at once, and whoever operates on a mapped peripheral
\* holds its lock.
C14_MutualExclusion ==
    /\ ~(w_op # "none" /\ w_op = h_op)
    /\ w_op \in Mapped => lock[w_op] = "worker"
    /\ h_op \in Mapped => lock[h_op] = "host"

\* C14 witness: the frame driver is feeding the UART while the worker, which
\* has read a byte fed earlier, is inside a Clock access.
C14_Witness ==
    /\ h_op = "uart"
    /\ w_op = "clock"
    /\ uart_got # <<>>

-----------------------------------------------------------------------------
(***************************************************************************)
(* Claims on the command interpreter, under SpecVDP.                       *)
(***************************************************************************)

\* C15 (as claimed), under SpecVDP: whatever VRAM holds and whatever address
\* is submitted, no tick indexes VRAM outside its bounds (which would unwind
\* the frame driver), and every interpreted buffer ended by pushing a token or
\* by setting err_mode.
C15_VdpFaultsContained ==
    /\ ~panicked
    /\ execLog # <<>> => (popped \o last_cmd_tok # <<>> \/ err_mode # "None")

\* C16, under SpecVDP: END_OF_QUEUE ends the buffer.  The tokens pushed are
\* never more than the buffers interpreted, and when the only buffer
\* interpreted starts with an END_OF_QUEUE header the only token is that
\* header's bits 8..31 and the words after it have had no effect: no register
\* written, no dispatch, no error, no index outside VRAM.
C16_EndOfQueueEnds ==
    /\ Len(popped \o last_cmd_tok) <= Len(execLog)
    /\ \A a \in Addrs :
          (execLog = <<a>> /\ vram[a] % 256 = OP_END_OF_QUEUE) =>
              /\ popped \o last_cmd_tok = <<vram[a] \div 256>>
              /\ internal_reg = [r \in Regs |-> 0]
              /\ dispatches = <<>>
              /\ err_mode = "None"
              /\ ~panicked

\* C16 witness: the buffer at word 0 is END_OF_QUEUE(42), followed by a
\* register write and a second END_OF_QUEUE; it was interpreted and its token
\* is queued.
C16_Witness ==
    /\ execLog = <<0>>
    /\ vram[0] = Hdr(OP_END_OF_QUEUE, 42)
    /\ vram[1] = Hdr(OP_WRITE_REG, 5)
    /\ vram[2] = Hdr(OP_END_OF_QUEUE, 1)
    /\ last_cmd_tok = <<42>>

-----------------------------------------------------------------------------
(***************************************************************************)
(* SpecSlots: the three register files driven over defined and undefined   *)
(* slots.                                                                  *)
(***************************************************************************)
SlotUartAddrs == {UART_TX, UART_RX, 3}
SlotUartVals == {1}
SlotUartInputs == {<<65>>}
SlotClockAddrs == {CLK_STATUS, CLK_CTR0LO, 8}
SlotClockVals == {CLKBIT_RTC_EN + CLKBIT_CTR0_EN}
SlotVdpRegs == {REG_CMDPORT, REG_DISPLAYMODE, 3}
SlotVdpVals == {DISPLAYBIT_ENABLE}

InitSlots ==
    /\ InitMachineVars
    /\ vram = MainImage
    /\ VdpNew(<<0>>)
    /\ InitUartVars
    /\ sdl_ctr \in StartCtrs
    /\ InitClockVars
    /\ last = NoOp

NextSlots ==
    \/ \E input \in SlotUartInputs : PushInput(input)
    \/ \E addr \in SlotUartAddrs : UartRead(addr)
    \/ \E addr \in SlotUartAddrs, val \in SlotUartVals : UartWrite(addr, val)
    \/ \E addr \in SlotClockAddrs : ClockRead(addr)
    \/ \E addr \in SlotClockAddrs, val \in SlotClockVals : ClockWrite(addr, val)
    \/ \E reg \in SlotVdpRegs : GetReg(reg)
    \/ \E reg \in SlotVdpRegs \ {REG_CMDPORT}, val \in SlotVdpVals : SetReg(reg, val)
    \/ Tick

SpecSlots == InitSlots /\ [][NextSlots]_vars

\* The slots each register table defines, by direction.
UartReadTable == {UART_STATUS, UART_RX}
UartWriteTable == {UART_STATUS, UART_TX}
ClockReadTable == {CLK_STATUS, CLK_DT, CLK_CTR0LO, CLK_CTR0HI, CLK_CTR1LO, CLK_CTR1HI,
                   CLK_CTR0P, CLK_CTR1P}
ClockWriteTable == {CLK_STATUS, CLK_DT, CLK_CTR0P, CLK_CTR1P}
VdpRegTable == {REG_STATUS, REG_CMDPORT, REG_DISPLAYMODE}

\* The state each peripheral holds (the histories and the host's time aside).
uartDev == <<rx, tx, flushed>>
clockDev == <<rtc_en, dt_adjust, timestamp, ctr0_en, ctr1_en, ctr0, ctr1, ctr0_base,
              ctr1_base, clockRest>>
vdpDev == <<vram, vdpDevVars>>

\* C17, under SpecSlots: a read of a slot the peripheral's table does not
\* define for reads returns 0, and neither it nor a write to a slot the table
\* does not define for writes changes the peripheral's state or fails.
C17_UndefinedSlots ==
    [][ /\ (last'.op = "uart_read" /\ last'.slot \notin UartReadTable) =>
              (last'.ret = 0 /\ UNCHANGED uartDev)
        /\ (last'.op = "uart_write" /\ last'.slot \notin UartWriteTable) =>
              UNCHANGED uartDev
        /\ (last'.op = "clock_read" /\ last'.slot \notin ClockReadTable) =>
              (last'.ret = 0 /\ UNCHANGED clockDev)
        /\ (last'.op = "clock_write" /\ last'.slot \notin ClockWriteTable) =>
              UNCHANGED clockDev
        /\ (last'.op = "get_reg" /\ last'.slot \notin VdpRegTable) =>
              (last'.ret = 0 /\ UNCHANGED vdpDev)
        /\ (last'.op = "set_reg" /\ last'.slot \notin VdpRegTable) =>
              UNCHANGED vdpDev ]_vars

\* C17 witness: with a byte waiting in rx, the guest has just read UART slot 1,
\* which the table defines for writes only, and got 0; the byte is still there.
C17_Witness ==
    /\ last.op = "uart_read" /\ last.slot = UART_TX /\ last.ret = 0
    /\ rx = <<65>>
    /\ ctr0_en /\ display_enable

-----------------------------------------------------------------------------
\* A STATUS write with bit 0 set.
IsUartReset(op) == op.op = "uart_write" /\ op.slot = UART_STATUS /\ Bit(op.val, 1)

\* C18, under SpecUART: rx changes in three ways only.  push_input appends
\* the input at the back, an RX read removes the front byte, a STATUS write
\* with bit 0 set empties rx, and every other read or write leaves rx as it
\* is; an RX read that directly follows such a STATUS write returns 0 and a
\* STATUS read that directly follows it has bit 3 set.
C18_RxFrame ==
    [][ /\ last'.op = "push_input" =>
              \E input \in UartInputs : rx' = rx \o input
        /\ (last'.op = "uart_read" /\ last'.slot = UART_RX) =>
              rx' = (IF rx = <<>> THEN rx ELSE Tail(rx))
        /\ IsUartReset(last') => rx' = <<>>
        /\ (last'.op = "uart_read" /\ last'.slot # UART_RX) => rx' = rx
        /\ (last'.op = "uart_write" /\ ~IsUartReset(last')) => rx' = rx
        /\ (IsUartReset(last) /\ last'.op = "uart_read" /\ last'.slot = UART_RX) =>
              last'.ret = 0
        /\ (IsUartReset(last) /\ last'.op = "uart_read" /\ last'.slot = UART_STATUS) =>
              Bit(last'.ret, UART_RX_EMPTY) ]_vars

\* C18 witness: a STATUS write with bit 0 set has just emptied a queue that
\* held input.
C18_Witness ==
    /\ IsUartReset(last)
    /\ last.pre > 0
    /\ rx = <<>>

-----------------------------------------------------------------------------
\* C19, under SpecClockRtc: with the RTC disabled, DT written with v and the
\* RTC enabled again (no DT read while it was disabled), a DT read returns v
\* plus the whole seconds that have passed since the DT write, modulo the
\* word size.
C19_RtcResumes ==
    (last.op = "clock_read" /\ last.slot = CLK_DT /\ rtc_en /\ dt_set.ok) =>
        last.ret = AsU32(dt_set.v + (secs - dt_set.at))

\* C19 witness: DT was written with 1 one second after startup while the RTC
\* was disabled, the RTC was enabled, and a DT read two seconds after the
\* write has returned 1 + 2 modulo the word size.
C19_Witness ==
    /\ last.op = "clock_read" /\ last.slot = CLK_DT /\ rtc_en
    /\ dt_set = [ok |-> TRUE, v |-> 1, at |-> 1]
    /\ secs = 3
    /\ last.ret = AsU32(3)

-----------------------------------------------------------------------------
\* SpecClockReset: the guest resets, enables and reads the two counters while
\* host ticks pass.
ResetStatusVals ==
    { CLKBIT_CTR0_EN + CLKBIT_CTR1_EN,
      CLKBIT_CTR0_RESET,
      CLKBIT_CTR0_RESET + CLKBIT_CTR0_EN + CLKBIT_CTR1_EN,
      CLKBIT_CTR1_RESET + CLKBIT_CTR0_EN + CLKBIT_CTR1_EN,
      CLKBIT_CTR1_RESET + CLKBIT_CTR0_EN }

NextClockReset ==
    \/ CtrAdvance
    \/ \E addr \in CtrReadSlots : ClockRead(addr)
    \/ \E val \in ResetStatusVals : ClockWrite(CLK_STATUS, val)

SpecClockReset == InitClock /\ [][NextClockReset]_vars

\* The value ctr0 (ctr1) must have after a LO read when the last STATUS write
\* reset it at tick rst.at: the ticks since, if that write enabled it, else 0.
SinceReset(enbit) == IF Bit(rst.val, enbit) THEN sdl_ctr - rst.at ELSE 0

\* C20, under SpecClockReset: a STATUS write with bit 8 sets ctr0 to 0 and its
\* base to the current host tick and, without bit 16, leaves ctr1 and its base
\* alone (and the same with the counters exchanged); while that write is the
\* last STATUS write, a CTR0LO read latches and returns the ticks elapsed
\* since it if it enabled ctr0 and 0 if not, and CTR0HI returns the high word
\* of the latched value.
C20_CounterReset ==
    [][ /\ (last'.op = "clock_write" /\ last'.slot = CLK_STATUS) =>
              /\ Bit(last'.val, CLKBIT_CTR0_RESET) =>
                    (ctr0' = 0 /\ ctr0_base' = sdl_ctr)
              /\ Bit(last'.val, CLKBIT_CTR1_RESET) =>
                    (ctr1' = 0 /\ ctr1_base' = sdl_ctr)
              /\ ~Bit(last'.val, CLKBIT_CTR0_RESET) =>
                    (ctr0' = ctr0 /\ ctr0_base' = ctr0_base)
              /\ ~Bit(last'.val, CLKBIT_CTR1_RESET) =>
                    (ctr1' = ctr1 /\ ctr1_base' = ctr1_base)
        /\ (LastCtr0Read' /\ Bit(rst'.val, CLKBIT_CTR0_RESET)) =>
              (ctr0' = SinceReset(CLKBIT_CTR0_EN)' /\ last'.ret = LoWord(ctr0'))
        /\ (LastCtr1Read' /\ Bit(rst'.val, CLKBIT_CTR1_RESET)) =>
              (ctr1' = SinceReset(CLKBIT_CTR1_EN)' /\ last'.ret = LoWord(ctr1'))
        /\ (last'.op = "clock_read" /\ last'.slot = CLK_CTR0HI) =>
              last'.ret = HiWord(ctr0')
        /\ (last'.op = "clock_read" /\ last'.slot = CLK_CTR1HI) =>
              last'.ret = HiWord(ctr1') ]_vars

\* C20 witness: ctr0 had counted, a STATUS write with bit 8 and its enable bit
\* was made at tick 2 and left ctr1 running, and a CTR0LO read two ticks later
\* has latched 2.
C20_Witness ==
    /\ LastCtr0Read
    /\ rst = [val |-> CLKBIT_CTR0_RESET + CLKBIT_CTR0_EN + CLKBIT_CTR1_EN, at |-> 2]
    /\ sdl_ctr = 4
    /\ ctr0 = 2
    /\ ctr1 = 1 /\ ctr1_base \in StartCtrs

-----------------------------------------------------------------------------
(***************************************************************************)
(* SpecVdpRegs: the guest reads and writes STATUS, CMDPORT and DISPLAYMODE, *)
(* the host ticks and sets the cable type.  VRAM holds undefined opcodes    *)
(* and end-of-queue words, so a buffer either faults or completes.         *)
(***************************************************************************)
\* DisplayCable
HostCables == {"VGA", "Component"}

\* The bits get_reg puts in DISPLAYMODE bits 0-1 for a cable type.
CableBits(cable) ==
    CASE cable = "VGA" -> DISPLAYBIT_CABLE_VGA
      [] cable = "Composite" -> DISPLAYBIT_CABLE_COMPOSITE
      [] cable = "SVideo" -> DISPLAYBIT_CABLE_SVIDEO
      [] cable = "Component" -> DISPLAYBIT_CABLE_COMPONENT

\* VDP::set_cable(cable)
SetCable(cable) ==
    /\ ~panicked
    /\ cable_type' = cable
    /\ last' = Op("set_cable", 0, CableBits(cable), 0, 0)
    /\ UNCHANGED <<vram, internal_reg, reset_state, cmd_fifo, last_cmd_tok,
                   display_enable, display_interlace, err_mode, regmem, regmem_dirty,
                   dispatches, panicked, submitted, execLog, popped>>
    /\ UNCHANGED <<machineVars, uartVars, clockVars>>

\* Words of the images: the undefined opcode 0x7F and an end of queue.
RegsWords == { 127, Hdr(OP_END_OF_QUEUE, 1) }

\* Values the guest writes to STATUS: reset bit clear, reset bit set.
RegsStatusVals == {0, STATUSBIT_RESET}

\* Values the guest writes to DISPLAYMODE: cable bits 2 alone, and cable
\* bits 1 with enable and interlace.
RegsDisplayVals == { DISPLAYBIT_CABLE_SVIDEO,
                     DISPLAYBIT_CABLE_COMPOSITE + DISPLAYBIT_ENABLE
                       + DISPLAYBIT_INTERLACE }

VdpGuestRegs == {REG_STATUS, REG_CMDPORT, REG_DISPLAYMODE}

\* Addresses the guest submits: the first two words of VRAM.
RegsAddrs == {0, 1}

\* The images: any two of RegsWords at the submitted addresses, an end of
\* queue everywhere else.
RegsImages ==
    { [a \in 0..(VramWords - 1) |->
          IF a = 0 THEN w0 ELSE IF a = 1 THEN w1 ELSE Hdr(OP_END_OF_QUEUE, 1)] :
      w0 \in RegsWords, w1 \in RegsWords }

InitVdpRegs ==
    /\ vram \in RegsImages
    /\ InitVdpDev
    /\ InitMachineVars
    /\ InitUartVars
    /\ sdl_ctr \in StartCtrs
    /\ InitClockVars
    /\ last = NoOp

NextVdpRegs ==
    \/ \E a \in RegsAddrs : SetReg(REG_CMDPORT, a)
    \/ \E v \in RegsStatusVals : SetReg(REG_STATUS, v)
    \/ \E v \in RegsDisplayVals : SetReg(REG_DISPLAYMODE, v)
    \/ \E reg \in VdpGuestRegs : GetReg(reg)
    \/ \E cable \in HostCables : SetCable(cable)
    \/ Tick

SpecVdpRegs == InitVdpRegs /\ [][NextVdpRegs]_vars

\* The DISPLAYMODE word made of the cable bits c and the enable and interlace
\* bits of the value v.
DisplayWord(c, v) ==
    c + (IF Bit(v, DISPLAYBIT_ENABLE) THEN DISPLAYBIT_ENABLE ELSE 0)
      + (IF Bit(v, DISPLAYBIT_INTERLACE) THEN DISPLAYBIT_INTERLACE ELSE 0)

IsDisplayWrite(op) == op.op = "set_reg" /\ op.slot = REG_DISPLAYMODE
IsDisplayRead(op) == op.op = "get_reg" /\ op.slot = REG_DISPLAYMODE

IsStatusRead(op) == op.op = "get_reg" /\ op.slot = REG_STATUS
IsStatusWrite(op) == op.op = "set_reg" /\ op.slot = REG_STATUS

\* C22, under SpecVdpRegs: a STATUS read returns the reset bit (value 1) iff
\* reset_state, the fifo-empty bit (value 2) iff cmd_fifo is empty, 0x8 iff
\* err_mode is AddressError and 0x10 iff it is CmdError, and changes no device
\* state; a STATUS write arms reset_state exactly when the written value has
\* the reset bit clear and changes nothing else of the device.
C22_StatusComposite ==
    [][ /\ IsStatusRead(last') =>
              /\ Bit(last'.ret, STATUSBIT_RESET) <=> reset_state
              /\ Bit(last'.ret, STATUSBIT_CMDFIFOEMPTY) <=> (cmd_fifo = <<>>)
              /\ Bit(last'.ret, STATUSBIT_ERR_ADDR) <=> (err_mode = "AddressError")
              /\ Bit(last'.ret, STATUSBIT_ERR_CMD) <=> (err_mode = "CmdError")
              /\ UNCHANGED <<vram, vdpDevVars>>
        /\ IsStatusWrite(last') =>
              /\ reset_state' = (reset_state \/ ~Bit(last'.val, STATUSBIT_RESET))
              /\ UNCHANGED <<vram, internal_reg, cmd_fifo, last_cmd_tok, cable_type,
                             display_enable, display_interlace, err_mode, regmem,
                             regmem_dirty, dispatches, panicked>> ]_vars

\* C22 witness: reset was armed by a STATUS write, a buffer faulted on an
\* undefined opcode, another address is queued, and the STATUS read returned
\* the reset and command-error bits without the fifo-empty bit.
C22_Witness ==
    /\ IsStatusRead(last)
    /\ reset_state
    /\ err_mode = "CmdError"
    /\ cmd_fifo # <<>>
    /\ last.ret = STATUSBIT_RESET + STATUSBIT_ERR_CMD

\* C27, under SpecVdpRegs: no step of the guest's register reads and writes,
\* of the host's ticks or of set_cable takes err_mode from an error back to
\* None or changes one error into another, none clears reset_state once it is
\* armed, and a STATUS read made while err_mode is an error carries an error
\* bit.
C27_ErrorSticky ==
    [][ /\ err_mode # "None" => err_mode' = err_mode
        /\ reset_state => reset_state'
        /\ (IsStatusRead(last') /\ err_mode # "None") =>
              (Bit(last'.ret, STATUSBIT_ERR_ADDR) \/ Bit(last'.ret, STATUSBIT_ERR_CMD)) ]_vars

\* C27 witness: the buffer at 0 faulted on an undefined opcode, the buffer at
\* 1 was interpreted after it and completed with its token, reset is armed,
\* and a STATUS read made after both still returns the command-error bit.
C27_Witness ==
    /\ execLog = <<0, 1>>
    /\ vram[0] = 127 /\ vram[1] = Hdr(OP_END_OF_QUEUE, 1)
    /\ last_cmd_tok = <<1>>
    /\ err_mode = "CmdError"
    /\ reset_state
    /\ IsStatusRead(last) /\ Bit(last.ret, STATUSBIT_ERR_CMD)

-----------------------------------------------------------------------------
(***************************************************************************)
(* SpecVdpList: the guest submits buffers that write registers, dispatch    *)
(* vertex and triangle lists and carry reserved topology commands; the     *)
(* host ticks.                                                             *)
(***************************************************************************)
\* Words of VRAM in this specification.
ListVramWords == 7

\* The commands of the images.  Register 5 is written; the operand values are
\* themselves words that would end a buffer (an end of queue with token 7 or
\* 2) or fault it (the undefined opcode 0x7F).
ListWrite == Hdr(OP_WRITE_REG, 5)
ListVal1 == Hdr(OP_END_OF_QUEUE, 7)
ListVal2 == Hdr(OP_END_OF_QUEUE, 2)
ListVu == Hdr(OP_VERTEX_LIST, 2)
ListTri == Hdr(OP_TRI_LIST, 9)
ListEnd == Hdr(OP_END_OF_QUEUE, 1)
ListReserved == { Hdr(OP_TRI_STRIP, 1), Hdr(OP_LINE_LIST, 1), Hdr(OP_LINE_STRIP, 1) }
ListOperands == { ListVal1, 127 }

\* A sequence of words laid out from word 0, the rest of VRAM filled with
\* end-of-queue words.
Image(ws) ==
    [a \in 0..(ListVramWords - 1) |-> IF a < Len(ws) THEN ws[a + 1] ELSE ListEnd]

\* Two register writes, a triangle list, an end of queue.
ImgWrites == Image(<<ListWrite, ListVal1, ListWrite, ListVal2, ListTri, ListVal1, ListEnd>>)

\* A vertex list and a triangle list with no write between them.
ImgLists == Image(<<ListVu, ListVal1, ListVal2, ListTri, ListVal1, ListEnd, ListEnd>>)

\* A reserved command in front of a write and a triangle list.
ImgReserved(r, x) == Image(<<r, x, ListWrite, ListVal1, ListTri, ListVal1, ListEnd>>)

ListImages ==
    {ImgWrites, ImgLists} \cup { ImgReserved(r, x) : r \in ListReserved, x \in ListOperands }

\* Addresses the guest submits: where the commands of the images start.
ListAddrs == {0, 2, 4}

InitVdpList ==
    /\ vram \in ListImages
    /\ InitVdpDev
    /\ InitMachineVars
    /\ InitUartVars
    /\ sdl_ctr \in StartCtrs
    /\ InitClockVars
    /\ last = NoOp

NextVdpList ==
    \/ \E a \in ListAddrs : SetReg(REG_CMDPORT, a)
    \/ GetReg(REG_CMDPORT)
    \/ Tick

SpecVdpList == InitVdpList /\ [][NextVdpList]_vars

\* The entries of `dispatches` that are compute dispatches.
IsDispatch(e) == e.pipe \in {"vu", "draw_tri_list"}

\* Elements the device-local memory can hold: at most one per word of VRAM.
DeviceCapacity == Cardinality(DOMAIN vram)

\* C23, under SpecVdpList: a list command whose count exceeds what the
\* device-local memory can hold does not fault (err_mode stays None, the
\* buffer runs to its end of queue) and the count handed to the backend
\* dispatch is at most the device-local capacity.
C23_CountCapped ==
    /\ err_mode = "None"
    /\ ~panicked
    /\ \A i \in 1..Len(dispatches) :
          IsDispatch(dispatches[i]) => dispatches[i].count <= DeviceCapacity

MaxOf(S) == CHOOSE x \in S : \A y \in S : y <= x

\* Positions before k in `dispatches` of the uploads, and of the writes to r.
UploadsBefore(k) == { j \in 1..(k - 1) : dispatches[j].pipe = "upload" }
WritesBefore(r, k) ==
    { j \in 1..(k - 1) : dispatches[j].pipe = "write_reg" /\ dispatches[j].src = r }

\* A register write has executed since the last upload before position k, or
\* there is no upload before k.
WrittenSinceUpload(k) ==
    \/ UploadsBefore(k) = {}
    \/ \E j \in (MaxOf(UploadsBefore(k)) + 1)..(k - 1) : dispatches[j].pipe = "write_reg"

\* The register file the writes before position k have built.
RegsBefore(k) ==
    [r \in Regs |-> IF WritesBefore(r, k) = {} THEN 0
                    ELSE dispatches[MaxOf(WritesBefore(r, k))].dst]

\* The entry right before position i is an upload.
UploadedFor(i) == i > 1 /\ dispatches[i - 1].pipe = "upload"

\* C24, under SpecVdpList: every upload is immediately followed by a dispatch;
\* a dispatch is immediately preceded by an upload exactly when a register
\* write has executed since the previous upload or there has been none; at
\* every dispatch the backend's register buffer equals the register file the
\* writes so far have built; and internal_reg is that register file.  This
\* covers every sequence of buffers and ticks.
C24_LazyFlush ==
    /\ \A i \in 1..Len(dispatches) :
          dispatches[i].pipe = "upload" =>
              (i < Len(dispatches) /\ IsDispatch(dispatches[i + 1]))
    /\ \A i \in 1..Len(dispatches) :
          IsDispatch(dispatches[i]) =>
              /\ UploadedFor(i) <=>
                    WrittenSinceUpload(IF UploadedFor(i) THEN i - 1 ELSE i)
              /\ dispatches[i].regmem = RegsBefore(i)
    /\ internal_reg = RegsBefore(Len(dispatches) + 1)

\* C24 witness: two register writes and a triangle list in the buffer at 0
\* caused one upload, and the triangle list of the buffer at 4, interpreted
\* next with no write in between, caused none; both dispatches saw the value
\* of the second write in register 5.
C24_Witness ==
    /\ vram = ImgWrites
    /\ execLog = <<0, 4>>
    /\ [i \in 1..Len(dispatches) |-> dispatches[i].pipe]
          = <<"write_reg", "write_reg", "upload", "draw_tri_list", "draw_tri_list">>
    /\ dispatches[4].regmem[5] = ListVal2
    /\ dispatches[5].regmem[5] = ListVal2
    /\ ~regmem_dirty

\* The tick being taken interprets exactly the buffer at a.
TickOf(a) == last'.op = "tick" /\ cmd_fifo = <<a>>

\* C26, under SpecVdpList: when a tick interprets one buffer whose first
\* command is a reserved opcode (0x03, 0x04, 0x05), the device ends in the
\* state that interpreting from two words further on gives from the same
\* start: the reserved command has taken its header and one operand, made no
\* dispatch, upload or register write and left err_mode, last_cmd_tok and the
\* dirty flag alone, and the commands after it have run as if it were absent,
\* whatever the operand word is.
C26_ReservedSkipped ==
    [][\A a \in ListAddrs :
          (TickOf(a) /\ vram[a] \in ListReserved) =>
              LET r == ExecLoop([VdpState EXCEPT !.log = Append(@, a)], a + 2)
              IN  /\ internal_reg' = r.reg
                  /\ last_cmd_tok' = r.tok
                  /\ err_mode' = r.err
                  /\ regmem_dirty' = r.dirty
                  /\ regmem' = r.mirror
                  /\ dispatches' = r.disp
                  /\ panicked' = r.panic ]_vars

\* C26 witness: the only buffer interpreted starts with a reserved line list
\* whose operand is the undefined opcode 0x7F; the write and the triangle
\* list after it took effect, the end-of-queue token 1 was pushed and no
\* error was raised.
C26_Witness ==
    /\ vram = ImgReserved(Hdr(OP_LINE_LIST, 1), 127)
    /\ execLog = <<0>>
    /\ last.op = "tick"
    /\ internal_reg[5] = ListVal1
    /\ [i \in 1..Len(dispatches) |-> dispatches[i].pipe]
          = <<"write_reg", "upload", "draw_tri_list">>
    /\ last_cmd_tok = <<1>>
    /\ err_mode = "None"

\* C25, under SpecMachine: a timestep is taken from accum only by a step that
\* runs one VDP tick; raise_signal() is called only when the tick of the
\* timestep has finished and its raise is still due, and a tick starts only
\* when every earlier tick has had its raise; so the raises made are the
\* ticks started or one less.
C25_TickThenRaise ==
    [][ /\ accum' < accum =>
              (accum' = accum - 1 /\ n_tick' = n_tick + 1 /\ last'.op = "tick")
        /\ n_tick' # n_tick =>
              (n_tick' = n_tick + 1 /\ n_raise = n_tick /\ n_raise' = n_raise)
        /\ n_raise' # n_raise =>
              (n_raise' = n_raise + 1 /\ n_tick = n_raise + 1 /\ n_tick' = n_tick
               /\ hpc = "raise")
        /\ (n_raise' = n_tick' \/ n_raise' + 1 = n_tick')
        /\ (hpc' = "raise") <=> (n_raise' + 1 = n_tick') ]_vars

\* C25 witness: a frame owed at least two timesteps; the first was ticked and
\* raised, the second has been ticked and its raise is due.
C25_Witness ==
    /\ n_tick = 2
    /\ n_raise = 1
    /\ hpc = "raise"
    /\ last.op = "tick"

IsClockRead(op, slot) == op.op = "clock_read" /\ op.slot = slot
IsCtrReset(op, bit) == op.op = "clock_write" /\ op.slot = CLK_STATUS /\ Bit(op.val, bit)

\* C28, under SpecClockReset: the latched ctr0 (ctr1) changes only in a
\* CTR0LO (CTR1LO) read or a STATUS write with its reset bit, never by host
\* time passing; a LO read returns the low word of the value it latches; a
\* HI read returns the high word of the latched value as it stood before the
\* read and changes no clock state, the host tick included.  So a LO read and
\* a later HI read return the two halves of one value however many host
\* ticks lie between them.
C28_HiLatched ==
    [][ /\ ctr0' # ctr0 =>
              (IsClockRead(last', CLK_CTR0LO) \/ IsCtrReset(last', CLKBIT_CTR0_RESET))
        /\ ctr1' # ctr1 =>
              (IsClockRead(last', CLK_CTR1LO) \/ IsCtrReset(last', CLKBIT_CTR1_RESET))
        /\ IsClockRead(last', CLK_CTR0LO) => last'.ret = LoWord(ctr0')
        /\ IsClockRead(last', CLK_CTR1LO) => last'.ret = LoWord(ctr1')
        /\ IsClockRead(last', CLK_CTR0HI) =>
              (last'.ret = HiWord(ctr0) /\ UNCHANGED <<clockDev, sdl_ctr, secs>>)
        /\ IsClockRead(last', CLK_CTR1HI) =>
              (last'.ret = HiWord(ctr1) /\ UNCHANGED <<clockDev, sdl_ctr, secs>>) ]_vars

\* C28 witness: ctr0 is enabled and latched 1, host ticks have passed since,
\* so that the running count has another high word, and the CTR0HI read
\* returned the high word of the latched 1.
C28_Witness ==
    /\ IsClockRead(last, CLK_CTR0HI)
    /\ ctr0_en
    /\ ctr0 = 1
    /\ HiWord(CounterRunning(sdl_ctr, ctr0_base)) # HiWord(ctr0)
    /\ last.ret = HiWord(ctr0)

=============================================================================
